---- MODULE Spec2Model ----
(***************************************************************************)
(* Model of the two utility scripts of the repository:                     *)
(*   - archive-task-file.py : events a task file that lies under            *)
(*     <workspaceRoot>/.vscode into .vscode/tasks/archive                  *)
(*   - convert_svg_to_png.py: probes four conversion backends in order,    *)
(*     invokes the first one found and patches package.json                *)
(*                                                                         *)
(* A path is a sequence of names, a name is a pair <<stem, suffix>> (what   *)
(* pathlib calls .stem and .suffix), the filesystem is a function from the *)
(* existing paths to their nodes.  Symbolic links are not modelled: every  *)
(* path of the model is its own resolved form once "." and ".." are gone.  *)
(***************************************************************************)
EXTENDS Integers, Sequences, FiniteSets, TLC

VARIABLES fs,      \* the filesystem: path -> [kind, content]
          runs,    \* number of archiver runs completed (sequential runs)
          last,    \* what the last archiver run was given and what it returned
          pc,      \* two archiver runs at once: where each run is in main()
          taskOf,  \*   the resolved --task of each run
          cand,    \*   the n of the name each run's search looks at next
          destOf,  \*   the destination each run's search returned
          rc,      \*   each run's exit status
          events,  \*   the searches' returns and the moves, in the order they happened
          conv     \* the converter run: its arguments, environment and progress

seqvars == <<runs, last>>
concvars == <<pc, taskOf, cand, destOf, rc, events>>
vars == <<fs, runs, last, pc, taskOf, cand, destOf, rc, events, conv>>

(***************************************************************************)
(* Paths                                                                   *)
(***************************************************************************)
Name(stem, suffix) == <<stem, suffix>>
Stem(n) == n[1]
Suffix(n) == n[2]

D(s) == Name(s, "")                      \* a name without extension
PlanMd == Name("plan", ".md")
DotDot == D("..")
Dot == D(".")

FsRoot == <<>>                           \* "/"
WS == <<D("ws")>>                        \* the resolved workspace root
OUT == <<D("out")>>                      \* a directory outside the workspace
VS == WS \o <<D(".vscode")>>
TasksDir == VS \o <<D("tasks")>>
ArchDir == TasksDir \o <<D("archive")>>
SubDir == VS \o <<D("sub")>>

Parent(p) == IF p = <<>> THEN p ELSE SubSeq(p, 1, Len(p) - 1)
BaseName(p) == p[Len(p)]
IsPrefix(a, b) == Len(a) <= Len(b) /\ SubSeq(b, 1, Len(a)) = a
Rest(p, k) == SubSeq(p, k + 1, Len(p))

DirNode == [kind |-> "dir", content |-> <<>>]
FileNode(c) == [kind |-> "file", content |-> c]

Exists(f, p) == p \in DOMAIN f
IsDir(f, p) == Exists(f, p) /\ f[p].kind = "dir"

\* Path.resolve() without symbolic links: "." is dropped, ".." drops the
\* component before it ("/.." is "/").
RECURSIVE ResolveFrom(_, _)
ResolveFrom(acc, rest) ==
  IF rest = <<>> THEN acc
  ELSE LET h == Head(rest)
       IN IF h = Dot THEN ResolveFrom(acc, Tail(rest))
          ELSE IF h = DotDot THEN ResolveFrom(Parent(acc), Tail(rest))
          ELSE ResolveFrom(Append(acc, h), Tail(rest))

resolve(p) == ResolveFrom(<<>>, p)

\* task_abs of main: a relative --task is taken relative to the workspace.
task_abs(task) ==
  IF task.absolute THEN resolve(task.parts) ELSE resolve(WS \o task.parts)

(***************************************************************************)
(* archive-task-file.py                                                    *)
(***************************************************************************)
SearchLimit == 1000                      \* range(1, 1000)

\* child.resolve().relative_to(parent.resolve()): the rest of child after
\* parent, or ValueError when parent is no leading part of child.
relative_to(child, parent) ==
  IF IsPrefix(parent, child)
  THEN [ok |-> TRUE, rel |-> Rest(child, Len(parent))]
  ELSE [ok |-> FALSE, rel |-> <<>>]

is_subpath_nonstrict(child, parent) ==
  relative_to(resolve(child), resolve(parent)).ok

\* True if child is inside parent and not equal to it (str(rel) != ".").
is_subpath(child, parent) ==
  LET r == relative_to(resolve(child), resolve(parent))
  IN IF ~r.ok THEN FALSE ELSE r.rel /= <<>>

\* dest.with_name(f"{stem} ({n}){suffix}")
candidate(dest, n) ==
  LET b == BaseName(dest)
  IN Parent(dest) \o <<Name(Stem(b) \o " (" \o ToString(n) \o ")", Suffix(b))>>

unique_dest_overwriting(f, dest) == [ok |-> TRUE, path |-> dest]

\* The first of dest, candidate(dest, 1), ..., candidate(dest, 999) that does
\* not exist; RuntimeError when all of them exist.
unique_dest(f, dest) ==
  IF ~Exists(f, dest) THEN [ok |-> TRUE, path |-> dest]
  ELSE IF \A n \in 1..(SearchLimit - 1) : Exists(f, candidate(dest, n))
       THEN [ok |-> FALSE, path |-> dest]
       ELSE [ok |-> TRUE,
             path |-> candidate(dest,
                        CHOOSE n \in 1..(SearchLimit - 1) :
                          /\ ~Exists(f, candidate(dest, n))
                          /\ \A m \in 1..(n - 1) : Exists(f, candidate(dest, m)))]

\* Path.mkdir(parents=True, exist_ok=True): FileExistsError when the path is
\* there and no directory, NotADirectoryError when an ancestor is no directory.
RECURSIVE mkdir_parents(_, _)
mkdir_parents(f, p) ==
  IF Exists(f, p) THEN [ok |-> IsDir(f, p), fs |-> f]
  ELSE LET up == IF Exists(f, Parent(p)) THEN [ok |-> IsDir(f, Parent(p)), fs |-> f]
                 ELSE mkdir_parents(f, Parent(p))
       IN IF ~up.ok THEN up
          ELSE [ok |-> TRUE,
                fs |-> [q \in DOMAIN up.fs \cup {p} |-> IF q = p THEN DirNode ELSE up.fs[q]]]

\* os.rename(src, dst) of an existing src onto a dst that is absent or a file:
\* src and all below it now live at dst, a file at dst is replaced.
rename(f, src, dst) ==
  LET kept == {p \in DOMAIN f : ~IsPrefix(src, p)}
      new == {dst \o Rest(p, Len(src)) : p \in {q \in DOMAIN f : IsPrefix(src, q)}}
      from(q) == src \o Rest(q, Len(dst))
  IN [q \in kept \cup new |->
        IF IsPrefix(dst, q) /\ Exists(f, from(q)) THEN f[from(q)] ELSE f[q]]

copy_keeping_source(f, src, dst) ==
  IF ~Exists(f, src) THEN [ok |-> FALSE, fs |-> f]
  ELSE [ok |-> TRUE, fs |-> [q \in DOMAIN f \cup {dst} |-> IF q = dst THEN f[src] ELSE f[q]]]

\* shutil.move(src, dst): dst names the new place unless it is a directory,
\* then the source goes inside it; rename when it works, and the fallbacks
\* raise for a directory moved into itself or onto a file.
shutil_move_refusing(f, src, dst) ==
  IF ~Exists(f, src) \/ Exists(f, dst) THEN [ok |-> FALSE, fs |-> f]
  ELSE [ok |-> TRUE, fs |-> rename(f, src, dst)]

shutil_move(f, src, dst) ==
  IF ~Exists(f, src) THEN [ok |-> FALSE, fs |-> f]
  ELSE LET real_dst == IF IsDir(f, dst) THEN dst \o <<BaseName(src)>> ELSE dst
       IN IF IsDir(f, dst) /\ Exists(f, real_dst) THEN [ok |-> FALSE, fs |-> f]
          ELSE IF ~IsDir(f, Parent(real_dst)) THEN [ok |-> FALSE, fs |-> f]
          ELSE IF IsDir(f, src) /\ IsPrefix(src, real_dst) THEN [ok |-> FALSE, fs |-> f]
          ELSE IF IsDir(f, src) /\ Exists(f, real_dst) THEN [ok |-> FALSE, fs |-> f]
          ELSE [ok |-> TRUE, fs |-> rename(f, src, real_dst)]

not_found_never(f, p) == FALSE

\* if not task_abs.exists()
not_found(f, p) == ~Exists(f, p)

Outcome(f, code, msg, src, dst) ==
  [fs |-> f, exit |-> code, out |-> msg, task_abs |-> src, dest |-> dst]

\* main(): the whole run on filesystem f with argument --task.  An exception
\* nobody catches ends the interpreter with a traceback and status 1.
main(f, task) ==
  LET t == task_abs(task)
      archive_dir == VS \o <<D("tasks")>> \o <<D("archive")>>
  IN IF not_found(f, t) THEN Outcome(f, 2, "Task file not found", t, <<>>)
     ELSE IF ~is_subpath(t, VS) THEN Outcome(f, 0, "Skip", t, <<>>)
     ELSE LET mk == mkdir_parents(f, archive_dir)
          IN IF ~mk.ok THEN Outcome(mk.fs, 1, "Traceback", t, <<>>)
             ELSE LET ud == unique_dest(mk.fs, archive_dir \o <<BaseName(t)>>)
                  IN IF ~ud.ok THEN Outcome(mk.fs, 1, "Traceback", t, <<>>)
                     ELSE LET mv == shutil_move(mk.fs, t, ud.path)
                          IN IF ~mv.ok THEN Outcome(mv.fs, 1, "Traceback", t, ud.path)
                             ELSE Outcome(mv.fs, 0, "Archived", t, ud.path)

(***************************************************************************)
(* Filesystems the archiver starts from, and the --task arguments          *)
(***************************************************************************)
MaxRuns == 2                             \* archiver runs in a row

\* A file's bytes are named after the place the file was created at.
Bytes(p) == FileNode(p)

MakeFs(dirs, files) ==
  [p \in dirs \cup files |-> IF p \in dirs THEN DirNode ELSE Bytes(p)]

\* The archive entries a base name can take: 0 is the name itself.
entry(dest, n) == IF n = 0 THEN dest ELSE candidate(dest, n)

BaseDirs == {FsRoot, WS, OUT, VS, SubDir}
BaseFiles == {WS \o <<PlanMd>>, OUT \o <<PlanMd>>, SubDir \o <<PlanMd>>}

\* Which of plan.md, "plan (1).md", ... the archive directory holds already.
SmallSeeds == {{}, {0}, {0, 1}, {0, 2}, {1}}
FullSeeds == {0..(SearchLimit - 2), 0..(SearchLimit - 1)}

Seeded(seed) == {entry(ArchDir \o <<PlanMd>>, n) : n \in seed}

InitialFs ==
       \* .vscode/tasks absent, or a regular file
       {MakeFs(BaseDirs, BaseFiles \cup vp \cup tk) :
            vp \in SUBSET {VS \o <<PlanMd>>}, tk \in SUBSET {TasksDir}}
  \cup \* .vscode/tasks a directory, .vscode/tasks/archive absent or a regular file
       {MakeFs(BaseDirs \cup {TasksDir}, BaseFiles \cup vp \cup tp \cup ar) :
            vp \in SUBSET {VS \o <<PlanMd>>}, tp \in SUBSET {TasksDir \o <<PlanMd>>},
            ar \in SUBSET {ArchDir}}
  \cup \* the archive directory is there, with some earlier entries
       {MakeFs(BaseDirs \cup {TasksDir, ArchDir}, BaseFiles \cup vp \cup tp \cup Seeded(sd)) :
            vp \in SUBSET {VS \o <<PlanMd>>}, tp \in SUBSET {TasksDir \o <<PlanMd>>},
            sd \in SmallSeeds}
  \cup \* the archive directory is (nearly) out of names for plan.md
       {MakeFs({FsRoot, WS, VS, TasksDir, ArchDir}, {VS \o <<PlanMd>>} \cup Seeded(sd)) :
            sd \in FullSeeds}

Rel(parts) == [absolute |-> FALSE, parts |-> parts]
Abs(parts) == [absolute |-> TRUE, parts |-> parts]

TaskArgs ==
  { Rel(<<D(".vscode"), PlanMd>>),
    Rel(<<D(".vscode"), D("tasks"), PlanMd>>),
    Rel(<<D(".vscode"), D("sub"), PlanMd>>),
    Rel(<<D(".vscode"), D("sub")>>),
    Rel(<<D(".vscode"), D("tasks")>>),
    Rel(<<D(".vscode"), D("tasks"), D("archive")>>),
    Rel(<<D(".vscode"), D("tasks"), D("archive"), PlanMd>>),
    Rel(<<D(".vscode")>>),
    Rel(<<PlanMd>>),
    Rel(<<D(".vscode"), DotDot, PlanMd>>),
    Rel(<<D("sub"), DotDot, D(".vscode"), Dot, PlanMd>>),
    Rel(<<D(".vscode"), Name("missing", ".md")>>),
    Rel(<<Name("missing", ".md")>>),
    Abs(OUT \o <<PlanMd>>),
    Abs(OUT \o <<Name("missing", ".md")>>),
    Abs(VS \o <<PlanMd>>) }

NoRun == [task |-> Rel(<<>>), pre |-> <<>>, exit |-> 0, out |-> "none",
          task_abs |-> <<>>, dest |-> <<>>]

Procs == {1, 2}

ConcIdle ==
  /\ pc = [i \in Procs |-> "idle"]
  /\ taskOf = [i \in Procs |-> <<>>]
  /\ cand = [i \in Procs |-> 0]
  /\ destOf = [i \in Procs |-> <<>>]
  /\ rc = [i \in Procs |-> 0]
  /\ events = <<>>

ConvIdle == conv = [pc |-> "idle"]

InitArchive ==
  /\ fs \in InitialFs
  /\ runs = 0
  /\ last = NoRun
  /\ ConcIdle
  /\ ConvIdle

\* One run of the script, start to exit, on the filesystem as it is.
Archive(task) ==
  /\ runs < MaxRuns
  /\ \E r \in {main(fs, task)} :
        /\ fs' = r.fs
        /\ last' = [task |-> task, pre |-> fs, exit |-> r.exit, out |-> r.out,
                    task_abs |-> r.task_abs, dest |-> r.dest]
  /\ runs' = runs + 1
  /\ UNCHANGED <<concvars, conv>>

NextArchive == \E task \in TaskArgs : Archive(task)

SpecArchive == InitArchive /\ [][NextArchive]_vars

(***************************************************************************)
(* Archiver: what the claims speak of                                      *)
(***************************************************************************)
Ran == runs > 0
StrictlyUnder(p, d) == Len(p) > Len(d) /\ SubSeq(p, 1, Len(d)) = d
Entries(f) == {p \in DOMAIN f : Len(p) = Len(ArchDir) + 1 /\ Parent(p) = ArchDir}
NewEntries == Entries(fs) \ Entries(last.pre)
Dest0 == ArchDir \o <<BaseName(last.task_abs)>>
BaseOrVariant(d) == \E n \in 0..(SearchLimit - 1) : d = entry(Dest0, n)
DirOrAbsent(f, p) == Exists(f, p) => IsDir(f, p)

\* The run was given an existing path that lies strictly under .vscode.
GivenUnderVS ==
  /\ Ran
  /\ Exists(last.pre, last.task_abs)
  /\ StrictlyUnder(last.task_abs, VS)

\* What was at and below the source is now at and below d, byte for byte.
HoldsSource(d) ==
  \A p \in DOMAIN last.pre :
     IsPrefix(last.task_abs, p) =>
        LET q == d \o Rest(p, Len(last.task_abs))
        IN Exists(fs, q) /\ fs[q] = last.pre[p]

\* Nothing that was there before, the source apart, has changed.
OthersUntouched ==
  \A p \in DOMAIN last.pre :
     ~IsPrefix(last.task_abs, p) => Exists(fs, p) /\ fs[p] = last.pre[p]

Moved ==
  /\ last.exit = 0
  /\ ~Exists(fs, last.task_abs)
  /\ \E d \in NewEntries :
        /\ NewEntries = {d}
        /\ BaseOrVariant(d)
        /\ HoldsSource(d)
  /\ OthersUntouched

\* C1 as stated: every existing path strictly under .vscode is moved into the
\* archive directory by one run that exits 0: the path is gone, exactly one
\* new archive entry named after it holds its content, nothing else changed.
C1_AsStated == GivenUnderVS => Moved

\* The cases in which the run can do its work: .vscode/tasks and
\* .vscode/tasks/archive are directories or not there, the source is not the
\* archive directory or a directory above it, and one of the 1000 names
\* (the base name, " (1)" ... " (999)") is free.
Archivable ==
  /\ DirOrAbsent(last.pre, TasksDir)
  /\ DirOrAbsent(last.pre, ArchDir)
  /\ ~IsPrefix(last.task_abs, ArchDir)
  /\ \E n \in 0..(SearchLimit - 1) : ~Exists(last.pre, entry(Dest0, n))

\* C1, amended: every existing path strictly under .vscode that is archivable
\* (see Archivable) is moved by one run that exits 0: the path is gone,
\* exactly one new archive entry named after it (base name or " (n)" variant)
\* holds its content, and nothing else that existed has changed.
C1_Archived == (GivenUnderVS /\ Archivable) => Moved

\* A file under .vscode was archived under a " (n)" name next to an older entry.
C1_Witness ==
  /\ GivenUnderVS /\ Archivable
  /\ last.out = "Archived"
  /\ last.task_abs = VS \o <<PlanMd>>
  /\ last.dest = candidate(Dest0, 1)
  /\ Exists(fs, Dest0)

\* The name the search must come up with, told from the directory as it was.
FirstFree(d) ==
  IF ~Exists(last.pre, Dest0) THEN d = Dest0
  ELSE \E n \in 1..(SearchLimit - 1) :
          /\ d = candidate(Dest0, n)
          /\ ~Exists(last.pre, d)
          /\ \A m \in 1..(n - 1) : Exists(last.pre, candidate(Dest0, m))

NamedByRule == last.out = "Archived" => FirstFree(last.dest)

\* C2 as stated: a run leaves every entry the archive directory already had
\* in place with its content, and the destination is the base name when that
\* is unused, else "stem (n)ext" for the smallest unused n >= 1.
C2_AsStated ==
  Ran => /\ \A e \in Entries(last.pre) : Exists(fs, e) /\ fs[e] = last.pre[e]
         /\ NamedByRule

\* C2, amended: a run leaves every entry the archive directory already had,
\* other than the run's own source when that lies in the archive directory,
\* in place with its content, and the destination is the base name when that
\* is unused, else "stem (n)ext" for the smallest unused n >= 1.
C2_NoOverwrite ==
  Ran => /\ \A e \in Entries(last.pre) \ {last.task_abs} :
              Exists(fs, e) /\ fs[e] = last.pre[e]
         /\ NamedByRule

\* The second plan.md went to "plan (1).md" and the first one kept its bytes.
C2_Witness ==
  /\ runs = 2
  /\ last.out = "Archived"
  /\ last.task_abs = TasksDir \o <<PlanMd>>
  /\ last.dest = ArchDir \o <<Name("plan (1)", ".md")>>
  /\ Entries(last.pre) = {ArchDir \o <<PlanMd>>}
  /\ fs[ArchDir \o <<PlanMd>>] = Bytes(VS \o <<PlanMd>>)
  /\ fs[last.dest] = Bytes(TasksDir \o <<PlanMd>>)

\* C3: a run given an existing path that is not strictly under .vscode (the
\* .vscode directory itself, a path elsewhere in or outside the workspace)
\* exits 0 with the skip message and leaves the whole filesystem as it was.
C3_SkipIsNoOp ==
  (Ran /\ Exists(last.pre, last.task_abs) /\ ~StrictlyUnder(last.task_abs, VS))
     => /\ last.exit = 0
        /\ last.out = "Skip"
        /\ fs = last.pre

\* Given .vscode itself, the run skipped and made no archive directory.
C3_Witness ==
  /\ Ran
  /\ last.task_abs = VS
  /\ last.out = "Skip"
  /\ ~Exists(fs, ArchDir)

\* C4: a run given a path that does not exist exits with status 2 and
\* changes nothing: no directory is made, no file is moved.
C4_NotFound ==
  (Ran /\ ~Exists(last.pre, last.task_abs))
     => /\ last.exit = 2
        /\ fs = last.pre

\* A missing file under .vscode: exit 2, and still no archive directory.
C4_Witness ==
  /\ Ran
  /\ StrictlyUnder(last.task_abs, VS)
  /\ ~Exists(last.pre, last.task_abs)
  /\ last.exit = 2
  /\ ~Exists(fs, TasksDir)

(***************************************************************************)
(* Two archiver runs at once.  Each run is its own process; what they      *)
(* share is the filesystem, which they reach one system call at a time:    *)
(* exists(), mkdir(), one exists() per name of the search, the move.       *)
(***************************************************************************)
\* Two different files under .vscode, both called plan.md.
ConcSources == {VS \o <<PlanMd>>, SubDir \o <<PlanMd>>, TasksDir \o <<PlanMd>>}

ConcFs ==
  {f \in InitialFs :
      /\ Exists(f, SubDir \o <<PlanMd>>)
      /\ DirOrAbsent(f, TasksDir)
      /\ DirOrAbsent(f, ArchDir)}

InitConc ==
  /\ fs \in ConcFs
  /\ runs = 0
  /\ last = NoRun
  /\ taskOf \in {s \in [Procs -> ConcSources] : s[1] /= s[2] /\ \A i \in Procs : Exists(fs, s[i])}
  /\ pc = [i \in Procs |-> "exists"]
  /\ cand = [i \in Procs |-> 0]
  /\ destOf = [i \in Procs |-> <<>>]
  /\ rc = [i \in Procs |-> 0]
  /\ events = <<>>
  /\ ConvIdle

Exit(i, code) ==
  /\ pc' = [pc EXCEPT ![i] = "done"]
  /\ rc' = [rc EXCEPT ![i] = code]

\* if not task_abs.exists(): return 2; if not is_subpath(...): return 0
CheckTask(i) ==
  /\ pc[i] = "exists"
  /\ IF not_found(fs, taskOf[i]) THEN Exit(i, 2)
     ELSE IF ~is_subpath(taskOf[i], VS) THEN Exit(i, 0)
     ELSE pc' = [pc EXCEPT ![i] = "mkdir"] /\ rc' = rc
  /\ UNCHANGED <<fs, taskOf, cand, destOf, events, seqvars, conv>>

\* archive_dir.mkdir(parents=True, exist_ok=True)
MakeArchiveDir(i) ==
  /\ pc[i] = "mkdir"
  /\ \E mk \in {mkdir_parents(fs, ArchDir)} :
        /\ fs' = mk.fs
        /\ IF mk.ok THEN pc' = [pc EXCEPT ![i] = "search"] /\ rc' = rc
           ELSE Exit(i, 1)
  /\ UNCHANGED <<taskOf, cand, destOf, events, seqvars, conv>>

\* One exists() of unique_dest: destOf itself first, then candidate 1, 2, ...
\* The first name not there is returned; RuntimeError after candidate 999.
SearchName(i) ==
  /\ pc[i] = "search"
  /\ LET name == entry(ArchDir \o <<BaseName(taskOf[i])>>, cand[i])
     IN IF ~Exists(fs, name)
        THEN /\ destOf' = [destOf EXCEPT ![i] = name]
             /\ pc' = [pc EXCEPT ![i] = "move"]
             /\ events' = Append(events, <<"chose", i>>)
             /\ UNCHANGED <<cand, rc>>
        ELSE IF cand[i] + 1 < SearchLimit
        THEN /\ cand' = [cand EXCEPT ![i] = cand[i] + 1]
             /\ UNCHANGED <<destOf, pc, rc, events>>
        ELSE /\ Exit(i, 1)
             /\ UNCHANGED <<cand, destOf, events>>
  /\ UNCHANGED <<fs, taskOf, seqvars, conv>>

\* shutil.move(str(task_abs), str(destOf)); return 0
MoveTask(i) ==
  /\ pc[i] = "move"
  /\ \E mv \in {shutil_move(fs, taskOf[i], destOf[i])} :
        /\ fs' = mv.fs
        /\ Exit(i, IF mv.ok THEN 0 ELSE 1)
        /\ events' = IF mv.ok THEN Append(events, <<"moved", i>>) ELSE events
  /\ UNCHANGED <<taskOf, cand, destOf, seqvars, conv>>

NextConc ==
  \E i \in Procs : CheckTask(i) \/ MakeArchiveDir(i) \/ SearchName(i) \/ MoveTask(i)

SpecConc == InitConc /\ [][NextConc]_vars

(***************************************************************************)
(* Two runs at once: what the claim speaks of                              *)
(***************************************************************************)
AllDone == \A i \in Procs : pc[i] = "done"
At(e) == CHOOSE k \in 1..Len(events) : events[k] = e
\* Both searches returned before either run moved its file.
BothChoseFirst ==
  \A i, j \in Procs : At(<<"chose", i>>) < At(<<"moved", j>>)
LastMover == events[Len(events)][2]
Archived(i) == Exists(fs, destOf[i]) /\ fs[destOf[i]] = Bytes(taskOf[i])
Lost(i) == \A p \in DOMAIN fs : fs[p] /= Bytes(taskOf[i])

\* C10 as stated: when both runs are through, both files are in the archive
\* directory under distinct names with their original content.
C10_AsStated ==
  AllDone => /\ destOf[1] /= destOf[2]
             /\ \A i \in Procs : Archived(i)

\* C10, amended: when both runs are through, both have exited 0 and both
\* sources are gone.  If one search returned after the other run's move, the
\* names differ and both files are archived with their content.  If both
\* searches returned before either move, both returned the same name and the
\* later move replaced the file of the earlier one: the archive holds the
\* last mover's content under that name and the other file's content is lost.
C10_LastWriterWins ==
  AllDone =>
    /\ \A i \in Procs : rc[i] = 0 /\ ~Exists(fs, taskOf[i])
    /\ (destOf[1] = destOf[2]) <=> BothChoseFirst
    /\ IF destOf[1] /= destOf[2]
       THEN \A i \in Procs : Archived(i)
       ELSE \A i \in Procs : IF i = LastMover THEN Archived(i) ELSE Lost(i)

\* Both searches returned "plan (1).md"; run 2 moved last and run 1's file is lost.
C10_Witness ==
  /\ AllDone
  /\ destOf[1] = destOf[2]
  /\ destOf[1] = ArchDir \o <<Name("plan (1)", ".md")>>
  /\ LastMover = 2
  /\ Archived(2) /\ Lost(1)

(***************************************************************************)
(* convert_svg_to_png.py                                                   *)
(*                                                                         *)
(* The converter's paths are relative to the directory it is started in,   *)
(* which is the path <<>> here.  A file's content is a sequence of         *)
(* <<key, value>> pairs: the fields of package.json, or one pair that says  *)
(* what kind of image the file holds.                                      *)
(***************************************************************************)
DefaultSize == 128

DefaultSvg == <<D("resources"), D("icons"), Name("shortcuts", ".svg")>>
DefaultPng == <<D("resources"), D("icons"), Name("shortcuts", ".png")>>
package_json == <<Name("package", ".json")>>

\* str(path)
RECURSIVE str(_)
str(p) ==
  IF p = <<>> THEN "."
  ELSE LET n == BaseName(p)
       IN IF Len(p) = 1 THEN Stem(n) \o Suffix(n)
          ELSE str(Parent(p)) \o "/" \o Stem(n) \o Suffix(n)

\* The two literals of the package.json update.
IconSvgLiteral == <<"icon", "resources/icons/shortcuts.svg">>
IconPngLiteral == <<"icon", "resources/icons/shortcuts.png">>

\* old in content
contains(content, old) == \E k \in 1..Len(content) : content[k] = old

\* content.replace(old, new): every occurrence
replace(content, old, new) ==
  [k \in 1..Len(content) |-> IF content[k] = old THEN new ELSE content[k]]

\* sys.argv[k]; argv[1] is the script itself
sys_argv(argv, k) == argv[k + 1]
svg_path(argv) == IF Len(argv) > 1 THEN sys_argv(argv, 1) ELSE DefaultSvg
png_path(argv) == IF Len(argv) > 2 THEN sys_argv(argv, 2) ELSE DefaultPng

check_order_wand_first == <<"wand", "cairosvg", "rsvg-convert", "imagemagick">>

\* The order in which check_dependencies tries the backends.
check_order == <<"cairosvg", "wand", "rsvg-convert", "imagemagick">>

\* One try block of check_dependencies: does it return True, <backend>?
probe_finds(env, backend) ==
  IF backend = "cairosvg" THEN env.cairosvg                 \* import cairosvg
  ELSE IF backend = "wand" THEN env.PIL /\ env.wand         \* from PIL ..., from wand.image ...
  ELSE IF backend = "rsvg-convert" THEN env.rsvg = "rc0"    \* returncode == 0
  ELSE env.convert = "rc0"

suggestions(method) ==
  IF method = "cairosvg" THEN "pip install cairosvg"
  ELSE IF method = "wand" THEN "pip install Wand (requires ImageMagick to be installed)"
  ELSE IF method = "rsvg-convert"
  THEN "brew install librsvg (macOS) or apt-get install librsvg2-bin (Ubuntu)"
  ELSE IF method = "imagemagick"
  THEN "brew install imagemagick (macOS) or apt-get install imagemagick (Ubuntu)"
  ELSE method

\* The line install_suggestion(method) prints.
install_suggestion(method) == "To use this method, install: " \o suggestions(method)

no_backend_report_short ==
  <<"No suitable conversion tools found!", "You can install one of these options:",
    install_suggestion("cairosvg")>>

\* What main prints when check_dependencies found nothing.
no_backend_report ==
  <<"No suitable conversion tools found!", "You can install one of these options:",
    install_suggestion("cairosvg"), install_suggestion("wand"),
    install_suggestion("rsvg-convert"), install_suggestion("imagemagick")>>

\* What a backend can do when invoked.  The two library backends return True
\* or raise; the two command line backends also can end with a non-zero
\* return code, which makes convert_with_* return False.  The backend is not
\* part of the script: whether it has written the output file, whole or in
\* part, when it returns is the backend's business.
BackendOutcomes(method) ==
  LET failures == IF method \in {"rsvg-convert", "imagemagick"}
                  THEN {"nonzero", "raised"}
                  ELSE {"raised"}
  IN      {[result |-> "returned", wrote |-> w] : w \in {"nothing", "png"}}
     \cup {[result |-> r, wrote |-> w] : r \in failures, w \in {"nothing", "partial"}}

PngBytes(size) == << <<"png", ToString(size)>> >>
PartialBytes == << <<"png", "truncated">> >>

\* The filesystem after the backend wrote (or did not write) to path p.
written(f, p, wrote) ==
  IF wrote = "nothing" THEN f
  ELSE [q \in DOMAIN f \cup {p} |->
          IF q = p THEN FileNode(IF wrote = "png" THEN PngBytes(DefaultSize) ELSE PartialBytes)
          ELSE f[q]]

verified_by_report(success, f, p) == success

\* if success and png_path.exists()
verified(success, f, p) == success /\ Exists(f, p)

\* The package.json update after a verified conversion.
update_manifest(f) ==
  IF Exists(f, package_json) /\ contains(f[package_json].content, IconSvgLiteral)
  THEN [f EXCEPT ![package_json] =
          FileNode(replace(f[package_json].content, IconSvgLiteral, IconPngLiteral))]
  ELSE f

updated_manifest(f) ==
  Exists(f, package_json) /\ contains(f[package_json].content, IconSvgLiteral)

(***************************************************************************)
(* The converter's run, one step of main() after the other                 *)
(***************************************************************************)
OtherSvg == <<D("art"), Name("logo", ".svg")>>
OtherPng == <<D("gen"), Name("logo", ".png")>>
Script == <<Name("convert_svg_to_png", ".py")>>

Argvs ==
  { <<Script>>, <<Script, OtherSvg>>, <<Script, OtherSvg, OtherPng>>,
    <<Script, DefaultSvg, OtherPng>> }

ProbeResults == {"rc0", "nonzero", "FileNotFoundError"}
Envs == [cairosvg : BOOLEAN, PIL : BOOLEAN, wand : BOOLEAN,
         rsvg : ProbeResults, convert : ProbeResults]

SvgBytes == << <<"svg", "icon">> >>
OldPngBytes == << <<"png", "old">> >>
Manifest(icon) == << <<"name", "shortcuts">>, <<"icon", icon>> >>
Manifests ==
  { Manifest(str(DefaultSvg)), Manifest(str(OtherSvg)), Manifest(str(DefaultPng)),
    << <<"name", "shortcuts">> >> }

Ancestors(p) == {SubSeq(p, 1, k) : k \in 0..(Len(p) - 1)}

\* files: a set of <<path, content>> pairs
FsOf(files) ==
  LET paths == {e[1] : e \in files}
      dirs == UNION {Ancestors(q) : q \in paths} \cup {<<>>}
  IN [q \in dirs \cup paths |->
        IF q \in paths THEN FileNode((CHOOSE e \in files : e[1] = q)[2]) ELSE DirNode]

ConvFs ==
  {FsOf({<<q, SvgBytes>> : q \in svgs} \cup old \cup man) :
      svgs \in SUBSET {DefaultSvg, OtherSvg},
      old \in SUBSET {<<DefaultPng, OldPngBytes>>},
      man \in {{}} \cup {{<<package_json, m>>} : m \in Manifests}}

InitConv ==
  /\ fs \in ConvFs
  /\ conv \in {[pc |-> "start", argv |-> a, env |-> e, idx |-> 1, method |-> "none",
                outcome |-> "none", success |-> FALSE, exit |-> -1, printed |-> <<>>,
                probed |-> <<>>, invoked |-> <<>>, pre |-> fs] : a \in Argvs, e \in Envs}
  /\ runs = 0
  /\ last = NoRun
  /\ ConcIdle

Others == <<seqvars, concvars>>

Finish(c, code, lines) ==
  [c EXCEPT !.pc = "done", !.exit = code, !.printed = c.printed \o lines]

\* if not svg_path.exists(): ... sys.exit(1)
CheckInput ==
  /\ conv.pc = "start"
  /\ IF ~Exists(fs, svg_path(conv.argv))
     THEN conv' = Finish(conv, 1, <<"Error: SVG file not found", "Usage", "Example">>)
     ELSE conv' = [conv EXCEPT !.pc = "mkdir"]
  /\ UNCHANGED <<fs, Others>>

\* png_path.parent.mkdir(parents=True, exist_ok=True)
MakeOutputDir ==
  /\ conv.pc = "mkdir"
  /\ \E mk \in {mkdir_parents(fs, Parent(png_path(conv.argv)))} :
        /\ fs' = mk.fs
        /\ IF mk.ok
           THEN conv' = [conv EXCEPT !.pc = "probe",
                                     !.printed = conv.printed \o <<"Converting SVG to PNG:">>]
           ELSE conv' = Finish(conv, 1, <<"Traceback">>)
  /\ UNCHANGED Others

\* check_dependencies, one try block at a time
Probe ==
  /\ conv.pc = "probe"
  /\ conv.idx <= Len(check_order)
  /\ LET backend == check_order[conv.idx]
     IN IF probe_finds(conv.env, backend)
        THEN conv' = [conv EXCEPT !.pc = "invoke", !.method = backend,
                                  !.probed = Append(conv.probed, backend)]
        ELSE conv' = [conv EXCEPT !.idx = conv.idx + 1,
                                  !.probed = Append(conv.probed, backend)]
  /\ UNCHANGED <<fs, Others>>

\* return False, None; if not has_deps: ... sys.exit(1)
NoBackend ==
  /\ conv.pc = "probe"
  /\ conv.idx > Len(check_order)
  /\ conv' = Finish(conv, 1, no_backend_report)
  /\ UNCHANGED <<fs, Others>>

\* success = convert_with_<method>(svg_path, png_path, size), inside try/except
Invoke ==
  /\ conv.pc = "invoke"
  /\ \E o \in BackendOutcomes(conv.method) :
        /\ fs' = written(fs, png_path(conv.argv), o.wrote)
        /\ conv' = [conv EXCEPT
                      !.pc = "verify",
                      !.outcome = o.result,
                      !.success = (o.result = "returned"),
                      !.invoked = Append(conv.invoked, conv.method),
                      !.printed = conv.printed \o <<"Converting using " \o conv.method>>
                                    \o (IF o.result = "nonzero" THEN <<"Error: stderr">>
                                        ELSE IF o.result = "raised"
                                        THEN <<"Error during conversion">> ELSE <<>>)]
  /\ UNCHANGED Others

\* if success and png_path.exists(): ... else: ... sys.exit(1)
Verify ==
  /\ conv.pc = "verify"
  /\ IF verified(conv.success, fs, png_path(conv.argv))
     THEN /\ fs' = update_manifest(fs)
          /\ conv' = Finish(conv, 0,
                        <<"Conversion successful!">> \o
                        (IF updated_manifest(fs)
                         THEN <<"Updated package.json to reference PNG icon">> ELSE <<>>))
     ELSE /\ fs' = fs
          /\ conv' = Finish(conv, 1, <<"Conversion failed using " \o conv.method>>)
  /\ UNCHANGED Others

NextConv == CheckInput \/ MakeOutputDir \/ Probe \/ NoBackend \/ Invoke \/ Verify

SpecConv == InitConv /\ [][NextConv]_vars

(***************************************************************************)
(* Converter: what the claims speak of                                     *)
(***************************************************************************)
Done == conv.pc = "done"
Input == svg_path(conv.argv)
Output == png_path(conv.argv)
InputExisted == Exists(conv.pre, Input)
FixedOrder == <<"cairosvg", "wand", "rsvg-convert", "imagemagick">>
FourBackends == {FixedOrder[k] : k \in 1..4}

\* A backend is available when its imports work (the wand probe imports PIL
\* too) or its version query returns status 0.
Available(b) ==
  \/ b = "cairosvg" /\ conv.env.cairosvg
  \/ b = "wand" /\ conv.env.PIL /\ conv.env.wand
  \/ b = "rsvg-convert" /\ conv.env.rsvg = "rc0"
  \/ b = "imagemagick" /\ conv.env.convert = "rc0"

Printed(line) == \E k \in 1..Len(conv.printed) : conv.printed[k] = line
SameAt(p, f, g) == (Exists(f, p) <=> Exists(g, p)) /\ (Exists(f, p) => f[p] = g[p])
BackendFailed == conv.outcome \in {"raised", "nonzero"}

NoneAvailable == \A b \in FourBackends : ~Available(b)

\* C6: with none of the four backends available (and the input there), the
\* run never invokes a backend: from probing it ends in the no-backend
\* failure, prints the installation hint of each of the four backends, exits
\* with status 1 and leaves outputPath as it was (no output file is made).
C6_NoBackend ==
  (InputExisted /\ NoneAvailable) =>
    /\ conv.pc \notin {"invoke", "verify"}
    /\ conv.invoked = <<>>
    /\ conv.outcome = "none"
    /\ SameAt(Output, fs, conv.pre)
    /\ Done => /\ conv.exit = 1
               /\ conv.method = "none"
               /\ \A b \in FourBackends : Printed(install_suggestion(b))

\* Nothing is installed (rsvg-convert runs but its --version fails): exit 1,
\* and no file at the output path.
C6_Witness ==
  /\ Done /\ InputExisted /\ NoneAvailable
  /\ conv.env.rsvg = "nonzero"
  /\ conv.exit = 1
  /\ Printed("No suitable conversion tools found!")
  /\ ~Exists(fs, Output)

\* C7: the run exits with status 0 exactly when the backend reported success
\* and the output file exists; every other run exits with status 1.
C7_ExitStatus ==
  Done => /\ conv.exit \in {0, 1}
          /\ conv.exit = 0 <=> (conv.outcome = "returned" /\ Exists(fs, Output))

\* The backend reported success but there is no output file: exit 1.
C7_Witness ==
  /\ Done
  /\ conv.outcome = "returned"
  /\ ~Exists(fs, Output)
  /\ conv.exit = 1

\* C8 as stated: package.json is modified only by a run that exits 0, and in
\* such a run an icon field that references the input path is rewritten to
\* reference the output path, while a package.json that is absent or has no
\* such field is left as it was.
C8_AsStated ==
  Done =>
    LET old == <<"icon", str(Input)>>
        new == <<"icon", str(Output)>>
    IN /\ ~SameAt(package_json, fs, conv.pre) => conv.exit = 0
       /\ conv.exit = 0 =>
            IF Exists(conv.pre, package_json) /\ contains(conv.pre[package_json].content, old)
            THEN /\ Exists(fs, package_json)
                 /\ fs[package_json].content = replace(conv.pre[package_json].content, old, new)
            ELSE SameAt(package_json, fs, conv.pre)

\* C9 as stated: when the selected backend raises or returns non-zero the run
\* exits 1, no output file written by the run is left at outputPath and
\* package.json is unchanged.
C9_AsStated ==
  (Done /\ BackendFailed) =>
    /\ conv.exit = 1
    /\ SameAt(Output, fs, conv.pre)
    /\ SameAt(package_json, fs, conv.pre)

====
